---- MODULE Spec2Model ----
(***************************************************************************)
(* A model of server.js of timelapse-url: the session registry (sessions), *)
(* the capture directory on disk (frames, metadata.json, timelapse.gif)    *)
(* and the four request handlers, cut at their await points so that        *)
(* handlers of overlapping requests interleave as they do on Node's event  *)
(* loop.                                                                   *)
(***************************************************************************)
EXTENDS Integers, Sequences, FiniteSets, TLC

VARIABLES
    now,        \* the wall clock Date.now() / new Date() reads (milliseconds)
    disk,       \* captures/<dirName>: the directory, its frames, metadata, gif
    sessions,   \* the Map sessions: sessionId -> session record
    nextSid,    \* stands for crypto.randomBytes(16): the next unused identifier
    reqs,       \* the requests being served, one per slot, with their locals
    out,        \* the request answered last: its locals and its response
    budget,     \* how many more requests the callers will send
    callers,    \* whether callers wait for an answer before the next request
    log,        \* sequential callers' record of the captures answered so far
    lastRegen   \* per directory, the arguments of the latest generateGif call
                \* that found frames (history, for the properties)

vars == <<now, disk, sessions, nextSid, reqs, out, budget, callers, log,
          lastRegen>>

-----------------------------------------------------------------------------
(* Bounds of the model. *)

\* The number of requests the server receives in one run: from callers
\* whose requests overlap, from callers that send one request at a time, and
\* from a caller that resumes a directory and regenerates its animation.
MaxRequests == 3
MaxSeqRequests == 4
MaxAsmRequests == 2

\* The most frames a directory holds from earlier runs of the server.
MaxPrior == 4

\* The last millisecond the clock reaches.
MaxTime == 1

\* Requests that may be in service at once (overlapping at await points).
Slots == {1, 2}

-----------------------------------------------------------------------------
(* Inputs. *)

\* The URLs callers name. One URL, and so one directory, is enough for every
\* session here to share its directory with the others.
Urls == {[scheme |-> "http", rest |-> "cam"]}

\* req.body.url absent.
NoUrl == [scheme |-> "", rest |-> ""]

\* Contents of a response body / a file: two distinct PNG images and a body
\* that is no image at all (an HTML error page).
Images == {"A", "B"}
NotAnImage == "E"
Bytes == Images \cup {NotAnImage}
NoBytes == "-"

\* What protocol.get(url) can deliver: a response (any status, with its
\* body), or a transport error.
FetchOutcomes ==
    {[kind |-> "response", status |-> 200, body |-> b] : b \in Images}
    \cup {[kind |-> "response", status |-> 404, body |-> NotAnImage]}
    \cup {[kind |-> "error", status |-> 0, body |-> NoBytes]}

\* req.body.speed: 0 stands for an absent (falsy) speed.
Speeds == {0, 2, 3}

BaseDelay == 500

-----------------------------------------------------------------------------
(* File names and the directory. *)

\* `image_${String(captureCount).padStart(5, '0')}_${timestamp}.png`.
\* padStart never truncates, so the name determines the pair (count,
\* timestamp) and the pair the name; the model keeps the pair.
FrameName(captureCount, timestamp) ==
    [kind |-> "image_.png", idx |-> captureCount, ts |-> timestamp]

NoName == [kind |-> "", idx |-> 0, ts |-> 0]
MetadataName == [kind |-> "metadata.json", idx |-> 0, ts |-> 0]
GifName == [kind |-> "timelapse.gif", idx |-> 0, ts |-> 0]

\* md5(url).substring(0, 8) is taken to tell the model's URLs apart; the
\* sanitized prefix drops the scheme.
urlToDirectory(url) == [sanitized |-> url.rest, hash |-> url]

Dirs == {urlToDirectory(u) : u \in Urls}

NoMeta == [url |-> NoUrl, createdAt |-> -1]
NoGif == [exists |-> FALSE, cells |-> <<>>]

EmptyDir == [exists |-> FALSE, meta |-> NoMeta, frames |-> <<>>, gif |-> NoGif]

\* fs.readdir: the names of every file of the directory.
Readdir(d) ==
    DOMAIN disk[d].frames
    \cup (IF disk[d].meta # NoMeta THEN {MetadataName} ELSE {})
    \cup (IF disk[d].gif.exists THEN {GifName} ELSE {})

\* f.startsWith('image_') && f.endsWith('.png')
IsImageFile(f) == f.kind = "image_.png"

\* parseInt of the last '_'-separated part of the name without '.png'.
getTimestamp(filename) == filename.ts

\* Array.prototype.sort with the comparator getTimestamp(a) - getTimestamp(b):
\* every arrangement of the names in which timestamps never decrease (names
\* with equal timestamps keep the order readdir listed them in, which the
\* file system chooses).
SortedByTimestamp(S) ==
    {s \in [1..Cardinality(S) -> S] :
        /\ \A i, j \in 1..Cardinality(S) : i # j => s[i] # s[j]
        /\ \A i, j \in 1..Cardinality(S) :
              i < j => getTimestamp(s[i]) <= getTimestamp(s[j])}

\* loadExistingSession counting every file readdir lists, not only the
\* image files.
loadExistingSession_CountsAllFiles(d) ==
    {[images |-> s, captureCount |-> Cardinality(Readdir(d))] :
        s \in SortedByTimestamp({f \in Readdir(d) : IsImageFile(f)})}

\* The results loadExistingSession can return for a directory.
loadExistingSession(d) ==
    {[images |-> s, captureCount |-> Len(s)] :
        s \in SortedByTimestamp({f \in Readdir(d) : IsImageFile(f)})}

\* fs.writeFile(path, bytes) on a frame: creates or replaces the file.
WriteFrame(frames, name, bytes) ==
    [n \in DOMAIN frames \cup {name} |-> IF n = name THEN bytes ELSE frames[n]]

\* Date.now(): some time has passed since the clock was last read, or none.
ClockReads == now..MaxTime

-----------------------------------------------------------------------------
(* Requests. *)

NoResp == [code |-> 0, error |-> "", sessionId |-> 0, existingImages |-> 0,
           continuing |-> FALSE, imageCount |-> 0, latestImage |-> NoName,
           duplicate |-> FALSE]

\* res.json(body): status 200.
Answer == [NoResp EXCEPT !.code = 200]

\* res.status(code).json({error}); error names what failed, as the message
\* sent does.
Failure(code, error) == [NoResp EXCEPT !.code = code, !.error = error]

\* The locals of generateGif.
NoAsm == [delay |-> 0, i |-> 0, previousImagePath |-> NoName, canvas |-> NoBytes,
          pos |-> 0]

Idle == [kind |-> "", pc |-> "idle", url |-> NoUrl, sid |-> 0,
         imageBuffer |-> NoBytes, status |-> 0, last |-> NoName,
         lastImageBuffer |-> NoBytes, imageName |-> NoName, createdAt |-> 0,
         pushed |-> FALSE, countBefore |-> 0, speed |-> 0, failed |-> "",
         asm |-> NoAsm, resp |-> NoResp]

\* A request is taken up by the lowest slot that serves none.
Free(r) ==
    /\ budget > 0
    /\ reqs[r].pc = "idle"
    /\ \A q \in Slots : q < r => reqs[q].pc # "idle"
    /\ callers = "sequential" => \A q \in Slots : reqs[q].pc = "idle"

\* What a sequential caller notes of a capture it got an answer to: the
\* session, the bytes fetched, the last frame's bytes they were compared
\* with, whether a frame was stored, whether the answer was a success, and
\* the session's frame count when the request was sent and when answered.
LogEntry(req, resp) ==
    [sid |-> req.sid, imageBuffer |-> req.imageBuffer,
     lastImageBuffer |-> req.lastImageBuffer, stored |-> req.pushed,
     ok |-> resp.code = 200, before |-> req.countBefore,
     after |-> Len(sessions[req.sid].images)]

\* The handler of slot r, its locals being req, sends its response and ends.
ReplyFrom(r, req, resp) ==
    /\ reqs' = [reqs EXCEPT ![r] = Idle]
    /\ out' = [req EXCEPT !.pc = "done", !.resp = resp, !.createdAt = 0,
                          !.asm = [NoAsm EXCEPT !.delay = req.asm.delay]]
    /\ log' = IF callers = "sequential" /\ req.kind = "capture"
              THEN Append(log, LogEntry(req, resp))
              ELSE log

Reply(r, resp) == ReplyFrom(r, reqs[r], resp)

\* A handler that answers before its first await.
ReplyAtOnce(kind, sessionId, resp) ==
    /\ out' = [Idle EXCEPT !.kind = kind, !.pc = "done", !.sid = sessionId,
                           !.resp = resp]
    /\ UNCHANGED <<reqs, log>>

\* No generateGif call has found frames yet.
NoRegen == [called |-> FALSE, input |-> <<>>, delay |-> 0]

\* What a generateGif call is given: the bytes of the frames the sequence
\* names at the moment of the call, and the delay.
RegenOf(frames, images, delay) ==
    [called |-> TRUE, input |-> [k \in 1..Len(images) |-> frames[images[k]]],
     delay |-> delay]

\* A directory as earlier runs of the server left it: the frames of the
\* byte sequence s under names of increasing index and (past) timestamp, the
\* metadata, and the animation of the last regeneration. Runs of equal
\* frames are there when two sessions captured into the directory.
RECURSIVE KeepChanges(_)
KeepChanges(s) ==
    IF Len(s) <= 1 THEN s
    ELSE LET front == KeepChanges(SubSeq(s, 1, Len(s) - 1))
         IN IF s[Len(s)] = s[Len(s) - 1] THEN front ELSE Append(front, s[Len(s)])

PriorRuns(n) == UNION {[1..k -> Images] : k \in 0..n}

PriorDir(d, s) ==
    IF s = <<>> THEN EmptyDir
    ELSE [exists |-> TRUE,
          meta |-> [url |-> d.hash, createdAt |-> 0 - Len(s) - 1],
          frames |-> [n \in {FrameName(k - 1, k - Len(s) - 1) : k \in 1..Len(s)}
                        |-> s[n.idx + 1]],
          gif |-> [exists |-> TRUE,
                   cells |-> <<[t |-> "header", img |-> s[1], delay |-> 0]>>
                       \o [k \in 1..Len(KeepChanges(s)) |->
                              [t |-> "frame", img |-> KeepChanges(s)[k], delay |-> BaseDelay]]
                       \o <<[t |-> "trailer", img |-> NoBytes, delay |-> 0]>>]]

\* The server starts on a directory that is new or holds a frame of an
\* earlier run; its callers' requests overlap.
Init ==
    /\ now = 0
    /\ \E s \in {<<>>, <<"A">>} : disk = [d \in Dirs |-> PriorDir(d, s)]
    /\ sessions = <<>>
    /\ nextSid = 1
    /\ reqs = [r \in Slots |-> Idle]
    /\ out = Idle
    /\ budget = MaxRequests
    /\ callers = "overlapping"
    /\ log = <<>>
    /\ lastRegen = [d \in Dirs |-> NoRegen]

\* The same, with callers that send one request at a time.
SeqInit ==
    /\ now = 0
    /\ \E s \in PriorRuns(1) : disk = [d \in Dirs |-> PriorDir(d, s)]
    /\ sessions = <<>>
    /\ nextSid = 1
    /\ reqs = [r \in Slots |-> Idle]
    /\ out = Idle
    /\ budget = MaxSeqRequests
    /\ callers = "sequential"
    /\ log = <<>>
    /\ lastRegen = [d \in Dirs |-> NoRegen]

AsmInit ==
    /\ now = 0
    /\ \E s \in PriorRuns(MaxPrior) : disk = [d \in Dirs |-> PriorDir(d, s)]
    /\ sessions = <<>>
    /\ nextSid = 1
    /\ reqs = [r \in Slots |-> Idle]
    /\ out = Idle
    /\ budget = MaxAsmRequests
    /\ callers = "sequential"
    /\ log = <<>>
    /\ lastRegen = [d \in Dirs |-> NoRegen]

-----------------------------------------------------------------------------
(* POST /api/start *)

\* StartBegin with the session identifier drawn before the test of url.
StartBegin_IdBeforeValidation(r, url) ==
    /\ Free(r)
    /\ budget' = budget - 1
    /\ nextSid' = nextSid + 1
    /\ IF url = NoUrl
       THEN ReplyAtOnce("start", 0, Failure(400, "URL is required"))
       ELSE /\ reqs' = [reqs EXCEPT ![r] =
                    [Idle EXCEPT !.kind = "start", !.pc = "ensureDir", !.url = url,
                                 !.sid = nextSid]]
            /\ UNCHANGED <<out, log>>
    /\ UNCHANGED <<now, disk, sessions, callers, lastRegen>>

\* The handler up to its first await: validation, the session identifier,
\* the directory name, and ensureDir's fs.access being issued.
StartBegin(r, url) ==
    /\ Free(r)
    /\ budget' = budget - 1
    /\ IF url = NoUrl
       THEN /\ ReplyAtOnce("start", 0, Failure(400, "URL is required"))
            /\ UNCHANGED nextSid
       ELSE /\ reqs' = [reqs EXCEPT ![r] =
                    [Idle EXCEPT !.kind = "start", !.pc = "ensureDir", !.url = url,
                                 !.sid = nextSid]]
            /\ nextSid' = nextSid + 1
            /\ UNCHANGED <<out, log>>
    /\ UNCHANGED <<now, disk, sessions, callers, lastRegen>>

\* ensureDir: fs.access, and fs.mkdir(recursive) when it rejects. The
\* handler goes on to saveMetadata's fs.access.
StartEnsureDir(r) ==
    /\ reqs[r].kind = "start" /\ reqs[r].pc = "ensureDir"
    /\ disk' = [disk EXCEPT ![urlToDirectory(reqs[r].url)].exists = TRUE]
    /\ reqs' = [reqs EXCEPT ![r].pc = "metaAccess"]
    /\ UNCHANGED <<now, sessions, nextSid, out, budget, callers, log,
                 lastRegen>>

\* saveMetadata: fs.access(metadataPath) settles. When it rejects the catch
\* block builds the metadata (reading the clock) and issues fs.writeFile.
StartMetaAccess(r) ==
    /\ reqs[r].kind = "start" /\ reqs[r].pc = "metaAccess"
    /\ IF disk[urlToDirectory(reqs[r].url)].meta # NoMeta
       THEN /\ reqs' = [reqs EXCEPT ![r].pc = "readdir"]
            /\ UNCHANGED now
       ELSE \E t \in ClockReads :
            /\ now' = t
            /\ reqs' = [reqs EXCEPT ![r].pc = "metaWrite", ![r].createdAt = t]
    /\ UNCHANGED <<disk, sessions, nextSid, out, budget, callers,
                 log, lastRegen>>

\* saveMetadata: fs.writeFile(metadataPath, ...) completes.
StartMetaWrite(r) ==
    /\ reqs[r].kind = "start" /\ reqs[r].pc = "metaWrite"
    /\ disk' = [disk EXCEPT ![urlToDirectory(reqs[r].url)].meta =
                    [url |-> reqs[r].url, createdAt |-> reqs[r].createdAt]]
    /\ reqs' = [reqs EXCEPT ![r].pc = "readdir"]
    /\ UNCHANGED <<now, sessions, nextSid, out, budget, callers, log,
                 lastRegen>>

\* loadExistingSession's fs.readdir settles; sessions.set; res.json. The
\* record also keeps, for the properties only, the count the response
\* reports (existingImages); no handler reads it.
StartLoad(r) ==
    /\ reqs[r].kind = "start" /\ reqs[r].pc = "readdir"
    /\ \E existingData \in loadExistingSession(urlToDirectory(reqs[r].url)) :
        /\ sessions' = sessions @@ (reqs[r].sid :>
                [url |-> reqs[r].url,
                 dirName |-> urlToDirectory(reqs[r].url),
                 images |-> existingData.images,
                 captureCount |-> existingData.captureCount,
                 existingImages |-> existingData.captureCount])
        /\ Reply(r, [Answer EXCEPT
                        !.sessionId = reqs[r].sid,
                        !.existingImages = existingData.captureCount,
                        !.continuing = existingData.captureCount > 0])
    /\ UNCHANGED <<now, disk, nextSid, budget, callers, lastRegen>>

-----------------------------------------------------------------------------
(* generateGif(sessionDir, images, delay). images is session.images itself, *)
(* the live array: the for-of loop sees what is pushed while it awaits.     *)

\* The artifact as the cells the encoder's stream wrote: the header (with
\* the canvas), one cell per added frame (with its delay), the trailer. Each
\* write stream writes at its own offset, whatever else the file holds.
Hole == [t |-> "hole", img |-> NoBytes, delay |-> 0]
HeaderCell(canvas) == [t |-> "header", img |-> canvas, delay |-> 0]
FrameCell(img, delay) == [t |-> "frame", img |-> img, delay |-> delay]
Trailer == [t |-> "trailer", img |-> NoBytes, delay |-> 0]

WriteAt(cells, pos, cell) ==
    IF pos <= Len(cells)
    THEN [cells EXCEPT ![pos] = cell]
    ELSE cells \o [k \in 1..(pos - Len(cells) - 1) |-> Hole] \o <<cell>>

\* sharp can decode a file exactly when it holds an image.
Decodable(bytes) == bytes \in Images

\* imagesAreIdentical answering false for every pair of files.
imagesAreIdentical_Never(frames, imagePath1, imagePath2) == FALSE

\* imagesAreIdentical(imagePath1, imagePath2): buffer1.equals(buffer2).
imagesAreIdentical(frames, imagePath1, imagePath2) ==
    frames[imagePath1] = frames[imagePath2]

\* The capture handler's res.json: success, imageCount, latestImage,
\* duplicate.
CaptureAnswer(session, isDuplicate) ==
    [Answer EXCEPT
        !.imageCount = Len(session.images),
        !.latestImage = session.images[Len(session.images)],
        !.duplicate = isDuplicate]

\* What the handler sends once generateGif has returned.
AfterGif(r) ==
    IF reqs[r].kind = "capture"
    THEN CaptureAnswer(sessions[reqs[r].sid], FALSE)
    ELSE Answer

\* What the handler's catch block sends when generateGif throws.
GifFailed(r) ==
    IF reqs[r].kind = "capture"
    THEN Failure(500, "Failed to capture image: render")
    ELSE Failure(500, "Failed to generate GIF")

\* sharp(firstImagePath).metadata() settles. On success: the encoder, the
\* write stream on timelapse.gif (flag 'w': the file is created or
\* truncated), encoder.start() (the header), and the loop reaches its first
\* await. On failure generateGif throws and the handler's catch answers 500.
GifMeta(r) ==
    /\ reqs[r].pc = "gifMeta"
    /\ LET d == sessions[reqs[r].sid].dirName
           first == disk[d].frames[sessions[reqs[r].sid].images[1]]
       IN IF Decodable(first)
          THEN /\ disk' = [disk EXCEPT ![d].gif =
                             [exists |-> TRUE, cells |-> <<HeaderCell(first)>>]]
               /\ reqs' = [reqs EXCEPT ![r].pc = "gifLoop",
                              ![r].asm.i = 1, ![r].asm.canvas = first,
                              ![r].asm.pos = 1]
               /\ UNCHANGED <<out, log>>
          ELSE /\ Reply(r, GifFailed(r))
               /\ UNCHANGED disk
    /\ UNCHANGED <<now, sessions, nextSid, budget, callers, lastRegen>>

\* GifIter with generateGif returning gifPath right after encoder.finish()
\* instead of the promise on the stream's 'finish': the handler answers
\* while the last bytes are still to be written.
GifIter_ReturnsAtFinishCall(r) ==
    /\ reqs[r].pc = "gifLoop"
    /\ LET a == reqs[r].asm
           s == sessions[reqs[r].sid]
           d == s.dirName
           imagePath == s.images[a.i]
           skip == /\ a.previousImagePath # NoName
                   /\ imagesAreIdentical(disk[d].frames, imagePath, a.previousImagePath)
           bytes == disk[d].frames[imagePath]
           added == IF skip THEN disk[d].gif.cells
                    ELSE WriteAt(disk[d].gif.cells, a.pos + 1, FrameCell(bytes, a.delay))
           last == a.i + 1 > Len(s.images)
       IN IF ~skip /\ ~Decodable(bytes)
          THEN /\ Reply(r, GifFailed(r))
               /\ UNCHANGED disk
          ELSE /\ disk' = [disk EXCEPT ![d].gif.cells = added]
               /\ IF last
                  THEN Reply(r, AfterGif(r))
                  ELSE /\ reqs' = [reqs EXCEPT
                             ![r].asm.i = a.i + 1,
                             ![r].asm.pos = IF skip THEN a.pos ELSE a.pos + 1,
                             ![r].asm.previousImagePath =
                                  IF skip THEN a.previousImagePath ELSE imagePath]
                       /\ UNCHANGED <<out, log>>
    /\ UNCHANGED <<now, sessions, nextSid, budget, callers, lastRegen>>

\* One turn of the loop over images: the duplicate test against the previous
\* accepted frame, else sharp's resize and encoder.addFrame. When the
\* iterator is exhausted, encoder.finish() writes the trailer.
GifIter(r) ==
    /\ reqs[r].pc = "gifLoop"
    /\ LET a == reqs[r].asm
           s == sessions[reqs[r].sid]
           d == s.dirName
           imagePath == s.images[a.i]
           skip == /\ a.previousImagePath # NoName
                   /\ imagesAreIdentical(disk[d].frames, imagePath, a.previousImagePath)
           bytes == disk[d].frames[imagePath]
           added == IF skip THEN disk[d].gif.cells
                    ELSE WriteAt(disk[d].gif.cells, a.pos + 1, FrameCell(bytes, a.delay))
           pos == IF skip THEN a.pos ELSE a.pos + 1
           last == a.i + 1 > Len(s.images)
       IN IF ~skip /\ ~Decodable(bytes)
          THEN /\ Reply(r, GifFailed(r))
               /\ UNCHANGED disk
          ELSE /\ disk' = [disk EXCEPT ![d].gif.cells =
                             IF last THEN WriteAt(added, pos + 1, Trailer) ELSE added]
               /\ reqs' = [reqs EXCEPT
                     ![r].pc = IF last THEN "gifFlush" ELSE "gifLoop",
                     ![r].asm.i = a.i + 1,
                     ![r].asm.pos = IF last THEN pos + 1 ELSE pos,
                     ![r].asm.previousImagePath =
                          IF skip THEN a.previousImagePath ELSE imagePath]
               /\ UNCHANGED <<out, log>>
    /\ UNCHANGED <<now, sessions, nextSid, budget, callers, lastRegen>>

\* writeStream's 'finish': generateGif's promise resolves, the handler
\* answers.
GifFlush(r) ==
    /\ reqs[r].pc = "gifFlush"
    /\ Reply(r, AfterGif(r))
    /\ UNCHANGED <<now, disk, sessions, nextSid, budget, callers, lastRegen>>

-----------------------------------------------------------------------------
(* POST /api/capture/:sessionId *)

\* CaptureBegin without the if (!session) return: a capture that names an
\* unknown session goes on to fetchImage.
CaptureBegin_NoLookupCheck(r, sessionId) ==
    /\ Free(r)
    /\ budget' = budget - 1
    /\ reqs' = [reqs EXCEPT ![r] =
           [Idle EXCEPT !.kind = "capture", !.pc = "fetch", !.sid = sessionId,
                        !.countBefore =
                            IF sessionId \in DOMAIN sessions
                            THEN Len(sessions[sessionId].images) ELSE 0]]
    /\ UNCHANGED <<now, disk, sessions, nextSid, callers, lastRegen, out, log>>

\* The handler up to its first await: the session lookup, then fetchImage.
\* (countBefore is the caller's: the frame count when the request was sent.)
CaptureBegin(r, sessionId) ==
    /\ Free(r)
    /\ budget' = budget - 1
    /\ IF sessionId \in DOMAIN sessions
       THEN /\ reqs' = [reqs EXCEPT ![r] =
                  [Idle EXCEPT !.kind = "capture", !.pc = "fetch", !.sid = sessionId,
                               !.countBefore = Len(sessions[sessionId].images)]]
            /\ UNCHANGED <<out, log>>
       ELSE ReplyAtOnce("capture", sessionId, Failure(404, "Session not found"))
    /\ UNCHANGED <<now, disk, sessions, nextSid, callers, lastRegen>>

\* The code after the duplicate test found no duplicate, up to the await of
\* fs.writeFile: the timestamp and the frame's name.
StoreFrame(r, buffer, status, last, lastImageBuffer) ==
    \E timestamp \in ClockReads :
        /\ now' = timestamp
        /\ reqs' = [reqs EXCEPT ![r].pc = "write",
               ![r].imageBuffer = buffer, ![r].status = status, ![r].last = last,
               ![r].lastImageBuffer = lastImageBuffer,
               ![r].imageName =
                   FrameName(sessions[reqs[r].sid].captureCount, timestamp)]
        /\ UNCHANGED <<out, log>>

\* LastImage taking the first frame of the sequence instead of the last.
LastImage_First(images) == images[1]

\* session.images[session.images.length - 1]
LastImage(images) == images[Len(images)]

\* isDuplicateOf with the comparison dropped: nothing is a duplicate.
isDuplicateOf_Never(imageBuffer, lastImageBuffer) == FALSE

\* imageBuffer.equals(lastImageBuffer)
isDuplicateOf(imageBuffer, lastImageBuffer) == imageBuffer = lastImageBuffer

\* fetchImage settles: it resolves with the body of whatever response came
\* (the status is not looked at) and rejects on a transport error. With
\* frames in the session the handler goes on to read the last one.
CaptureFetch(r) ==
    /\ reqs[r].kind = "capture" /\ reqs[r].pc = "fetch"
    /\ \E o \in FetchOutcomes :
         IF o.kind = "error"
         THEN /\ Reply(r, Failure(500, "Failed to capture image: fetch"))
              /\ UNCHANGED now
         ELSE LET images == sessions[reqs[r].sid].images
              IN IF Len(images) > 0
                 THEN /\ reqs' = [reqs EXCEPT ![r].pc = "readLast",
                             ![r].imageBuffer = o.body, ![r].status = o.status,
                             ![r].last = LastImage(images)]
                      /\ UNCHANGED <<now, out, log>>
                 ELSE StoreFrame(r, o.body, o.status, NoName, NoBytes)
    /\ UNCHANGED <<disk, sessions, nextSid, budget, callers, lastRegen>>

\* CaptureReadLast with captureCount incremented outside the
\* if (!isDuplicate) block: a duplicate is counted too.
CaptureReadLast_CountsDuplicate(r) ==
    /\ reqs[r].kind = "capture" /\ reqs[r].pc = "readLast"
    /\ LET s == sessions[reqs[r].sid]
           lastImageBuffer == disk[s.dirName].frames[reqs[r].last]
           isDuplicate == isDuplicateOf(reqs[r].imageBuffer, lastImageBuffer)
       IN IF isDuplicate
          THEN /\ ReplyFrom(r, [reqs[r] EXCEPT !.lastImageBuffer = lastImageBuffer],
                      CaptureAnswer(s, TRUE))
               /\ sessions' = [sessions EXCEPT ![reqs[r].sid].captureCount = @ + 1]
               /\ UNCHANGED now
          ELSE /\ StoreFrame(r, reqs[r].imageBuffer, reqs[r].status, reqs[r].last,
                             lastImageBuffer)
               /\ UNCHANGED sessions
    /\ UNCHANGED <<disk, nextSid, budget, callers, lastRegen>>

\* fs.readFile(lastImagePath) resolves: the duplicate test. A duplicate is
\* answered at once; anything else goes on to be stored.
CaptureReadLast(r) ==
    /\ reqs[r].kind = "capture" /\ reqs[r].pc = "readLast"
    /\ LET s == sessions[reqs[r].sid]
           lastImageBuffer == disk[s.dirName].frames[reqs[r].last]
           isDuplicate == isDuplicateOf(reqs[r].imageBuffer, lastImageBuffer)
       IN IF isDuplicate
          THEN /\ ReplyFrom(r, [reqs[r] EXCEPT !.lastImageBuffer = lastImageBuffer],
                      CaptureAnswer(s, TRUE))
               /\ UNCHANGED now
          ELSE StoreFrame(r, reqs[r].imageBuffer, reqs[r].status, reqs[r].last,
                          lastImageBuffer)
    /\ UNCHANGED <<disk, sessions, nextSid, budget, callers, lastRegen>>

\* fs.readFile(lastImagePath) rejects: the catch block answers 500.
CaptureReadLastFail(r) ==
    /\ reqs[r].kind = "capture" /\ reqs[r].pc = "readLast"
    /\ ReplyFrom(r, [reqs[r] EXCEPT !.failed = "readFile"],
                 Failure(500, "Failed to capture image: read"))
    /\ UNCHANGED <<now, disk, sessions, nextSid, budget, callers, lastRegen>>

\* fs.writeFile(imagePath, imageBuffer) resolves: the frame is on disk, the
\* name is pushed, captureCount incremented, and generateGif is called with
\* the default delay and runs to its first await.
CaptureWrite(r) ==
    /\ reqs[r].kind = "capture" /\ reqs[r].pc = "write"
    /\ LET sid == reqs[r].sid
           d == sessions[sid].dirName
       IN /\ disk' = [disk EXCEPT ![d].frames =
                        WriteFrame(@, reqs[r].imageName, reqs[r].imageBuffer)]
          /\ sessions' = [sessions EXCEPT
                 ![sid].images = Append(@, reqs[r].imageName),
                 ![sid].captureCount = @ + 1]
          /\ reqs' = [reqs EXCEPT ![r].pc = "gifMeta", ![r].pushed = TRUE,
                         ![r].asm = [NoAsm EXCEPT !.delay = BaseDelay]]
          /\ lastRegen' = [lastRegen EXCEPT ![d] =
                 RegenOf(disk'[d].frames, sessions'[sid].images, BaseDelay)]
    /\ UNCHANGED <<now, nextSid, out, budget, callers, log>>

\* CaptureWriteFail with the push and the increment placed before the
\* awaited write: a failed write leaves the name in the sequence.
CaptureWriteFail_PushesFirst(r) ==
    /\ reqs[r].kind = "capture" /\ reqs[r].pc = "write"
    /\ sessions' = [sessions EXCEPT
           ![reqs[r].sid].images = Append(@, reqs[r].imageName),
           ![reqs[r].sid].captureCount = @ + 1]
    /\ ReplyFrom(r, [reqs[r] EXCEPT !.pushed = TRUE],
                 Failure(500, "Failed to capture image: write"))
    /\ UNCHANGED <<now, disk, nextSid, budget, callers, lastRegen>>

\* fs.writeFile rejects (no file is created): the catch block answers 500.
CaptureWriteFail(r) ==
    /\ reqs[r].kind = "capture" /\ reqs[r].pc = "write"
    /\ Reply(r, Failure(500, "Failed to capture image: write"))
    /\ UNCHANGED <<now, disk, sessions, nextSid, budget, callers, lastRegen>>

-----------------------------------------------------------------------------
(* GET /api/session/:sessionId *)

Query(r, sessionId) ==
    /\ Free(r)
    /\ budget' = budget - 1
    /\ IF sessionId \in DOMAIN sessions
       THEN LET images == sessions[sessionId].images
            IN ReplyAtOnce("query", sessionId, [Answer EXCEPT
                   !.imageCount = Len(images),
                   !.latestImage = IF Len(images) = 0 THEN NoName
                                   ELSE images[Len(images)]])
       ELSE ReplyAtOnce("query", sessionId, Failure(404, "Session not found"))
    /\ UNCHANGED <<now, disk, sessions, nextSid, callers, lastRegen>>

-----------------------------------------------------------------------------
(* POST /api/generate-gif/:sessionId *)

\* Math.round(x / y) for positive integers.
Round(x, y) == (2 * x + y) \div (2 * y)

\* DelayFor with Math.floor in the place of Math.round.
DelayFor_Floor(speed) == BaseDelay \div (IF speed = 0 THEN 1 ELSE speed)

\* Math.round(baseDelay / (speed || 1))
DelayFor(speed) == Round(BaseDelay, IF speed = 0 THEN 1 ELSE speed)

\* GenerateGif with generateGif's images.length === 0 return removed: the
\* write stream creates or truncates timelapse.gif and reading the first
\* frame's path throws, so the handler answers 500.
GenerateGif_NoEmptyReturn(r, sessionId, speed) ==
    /\ Free(r)
    /\ budget' = budget - 1
    /\ IF sessionId \notin DOMAIN sessions
       THEN /\ ReplyAtOnce("generate-gif", sessionId, Failure(404, "Session not found"))
            /\ UNCHANGED disk
       ELSE IF Len(sessions[sessionId].images) = 0
       THEN /\ out' = [Idle EXCEPT !.kind = "generate-gif", !.pc = "done",
                          !.sid = sessionId, !.asm.delay = DelayFor(speed),
                          !.resp = Failure(500, "Failed to generate GIF")]
            /\ disk' = [disk EXCEPT ![sessions[sessionId].dirName].gif =
                            [exists |-> TRUE, cells |-> <<>>]]
            /\ UNCHANGED <<reqs, log>>
       ELSE /\ reqs' = [reqs EXCEPT ![r] =
                  [Idle EXCEPT !.kind = "generate-gif", !.pc = "gifMeta",
                               !.sid = sessionId, !.asm.delay = DelayFor(speed)]]
            /\ UNCHANGED <<out, log, disk>>
    /\ UNCHANGED <<now, sessions, nextSid, callers, lastRegen>>

\* The handler up to generateGif's first await. With no frames generateGif
\* returns null and the handler answers success.
GenerateGif(r, sessionId, speed) ==
    /\ Free(r)
    /\ budget' = budget - 1
    /\ IF sessionId \notin DOMAIN sessions
       THEN /\ ReplyAtOnce("generate-gif", sessionId, Failure(404, "Session not found"))
            /\ UNCHANGED lastRegen
       ELSE IF Len(sessions[sessionId].images) = 0
       THEN /\ out' = [Idle EXCEPT !.kind = "generate-gif", !.pc = "done",
                          !.sid = sessionId, !.asm.delay = DelayFor(speed),
                          !.resp = Answer]
            /\ UNCHANGED <<reqs, log, lastRegen>>
       ELSE /\ reqs' = [reqs EXCEPT ![r] =
                  [Idle EXCEPT !.kind = "generate-gif", !.pc = "gifMeta",
                               !.sid = sessionId, !.speed = speed,
                               !.asm.delay = DelayFor(speed)]]
            /\ lastRegen' = [lastRegen EXCEPT ![sessions[sessionId].dirName] =
                   RegenOf(disk[sessions[sessionId].dirName].frames,
                           sessions[sessionId].images, DelayFor(speed))]
            /\ UNCHANGED <<out, log>>
    /\ UNCHANGED <<now, disk, sessions, nextSid, callers>>

-----------------------------------------------------------------------------
(* File system failures in /api/start and on generateGif's output stream. *)

\* The handler of slot r has ended, or waits on a promise nothing will
\* settle: the request gets no response. failed names the call that
\* failed.
Unanswered(r, failed) ==
    /\ reqs' = [reqs EXCEPT ![r] = Idle]
    /\ out' = [reqs[r] EXCEPT !.pc = "unanswered", !.failed = failed,
                              !.createdAt = 0,
                              !.asm = [NoAsm EXCEPT !.delay = reqs[r].asm.delay]]
    /\ UNCHANGED log

\* An await of the start handler rejects. The handler has no try/catch, so
\* its promise rejects: Express 4 ignores the promise and sends nothing,
\* Express 5 passes the rejection to its error handler, which answers 500.
StartRejects(r, failed) ==
    \E forwarded \in BOOLEAN :
        IF forwarded
        THEN ReplyFrom(r, [reqs[r] EXCEPT !.failed = failed],
                       Failure(500, "Internal Server Error"))
        ELSE Unanswered(r, failed)

\* ensureDir: fs.access rejects and fs.mkdir rejects too.
StartEnsureDirFail(r) ==
    /\ reqs[r].kind = "start" /\ reqs[r].pc = "ensureDir"
    /\ ~disk[urlToDirectory(reqs[r].url)].exists
    /\ StartRejects(r, "mkdir")
    /\ UNCHANGED <<now, disk, sessions, nextSid, budget, callers, lastRegen>>

\* saveMetadata: fs.writeFile(metadataPath, ...) rejects.
StartMetaWriteFail(r) ==
    /\ reqs[r].kind = "start" /\ reqs[r].pc = "metaWrite"
    /\ StartRejects(r, "writeFile")
    /\ UNCHANGED <<now, disk, sessions, nextSid, budget, callers, lastRegen>>

\* loadExistingSession: fs.readdir rejects; the catch block returns no
\* images and count 0, and the handler goes on: sessions.set, res.json.
StartLoadFail(r) ==
    /\ reqs[r].kind = "start" /\ reqs[r].pc = "readdir"
    /\ sessions' = sessions @@ (reqs[r].sid :>
            [url |-> reqs[r].url,
             dirName |-> urlToDirectory(reqs[r].url),
             images |-> <<>>,
             captureCount |-> 0,
             existingImages |-> 0])
    /\ ReplyFrom(r, [reqs[r] EXCEPT !.failed = "readdir"],
                 [Answer EXCEPT !.sessionId = reqs[r].sid])
    /\ UNCHANGED <<now, disk, nextSid, budget, callers, lastRegen>>

\* writeStream emits 'error' (the file cannot be opened or written).
\* generateGif listens for 'finish' only: its promise never settles and the
\* handler never answers. (Without an 'error' listener Node raises the
\* event as an uncaught exception; the request is unanswered then too.)
GifStreamError(r) ==
    /\ reqs[r].pc \in {"gifLoop", "gifFlush"}
    /\ Unanswered(r, "writeStream")
    /\ UNCHANGED <<now, disk, sessions, nextSid, budget, callers, lastRegen>>

-----------------------------------------------------------------------------

\* A session identifier that was never handed out.
UnknownSession == 0

\* The session identifiers a caller may name.
SessionIds == DOMAIN sessions \cup {UnknownSession}

Next ==
    \/ \E r \in Slots, url \in Urls \cup {NoUrl} : StartBegin(r, url)
    \/ \E r \in Slots : StartEnsureDir(r)
    \/ \E r \in Slots : StartMetaAccess(r)
    \/ \E r \in Slots : StartMetaWrite(r)
    \/ \E r \in Slots : StartLoad(r)
    \/ \E r \in Slots, sessionId \in SessionIds : CaptureBegin(r, sessionId)
    \/ \E r \in Slots : CaptureFetch(r)
    \/ \E r \in Slots : CaptureReadLast(r)
    \/ \E r \in Slots : CaptureReadLastFail(r)
    \/ \E r \in Slots : CaptureWrite(r)
    \/ \E r \in Slots : CaptureWriteFail(r)
    \/ \E r \in Slots : GifMeta(r)
    \/ \E r \in Slots : GifIter(r)
    \/ \E r \in Slots : GifFlush(r)
    \/ \E r \in Slots, sessionId \in SessionIds : Query(r, sessionId)
    \/ \E r \in Slots, sessionId \in SessionIds, speed \in Speeds :
          GenerateGif(r, sessionId, speed)

Spec == Init /\ [][Next]_vars

\* Callers that start sessions and capture, one request at a time.
SeqNext ==
    \/ \E r \in Slots, url \in Urls : StartBegin(r, url)
    \/ \E r \in Slots : StartEnsureDir(r)
    \/ \E r \in Slots : StartMetaAccess(r)
    \/ \E r \in Slots : StartMetaWrite(r)
    \/ \E r \in Slots : StartLoad(r)
    \/ \E r \in Slots, sessionId \in DOMAIN sessions : CaptureBegin(r, sessionId)
    \/ \E r \in Slots : CaptureFetch(r)
    \/ \E r \in Slots : CaptureReadLast(r)
    \/ \E r \in Slots : CaptureReadLastFail(r)
    \/ \E r \in Slots : CaptureWrite(r)
    \/ \E r \in Slots : CaptureWriteFail(r)
    \/ \E r \in Slots : GifMeta(r)
    \/ \E r \in Slots : GifIter(r)
    \/ \E r \in Slots : GifFlush(r)

SeqSpec == SeqInit /\ [][SeqNext]_vars

\* A caller that resumes a directory and regenerates its animation.
AsmNext ==
    \/ \E r \in Slots, url \in Urls : StartBegin(r, url)
    \/ \E r \in Slots : StartEnsureDir(r)
    \/ \E r \in Slots : StartMetaAccess(r)
    \/ \E r \in Slots : StartMetaWrite(r)
    \/ \E r \in Slots : StartLoad(r)
    \/ \E r \in Slots, sessionId \in DOMAIN sessions, speed \in Speeds :
          GenerateGif(r, sessionId, speed)
    \/ \E r \in Slots : GifMeta(r)
    \/ \E r \in Slots : GifIter(r)
    \/ \E r \in Slots : GifFlush(r)

AsmSpec == AsmInit /\ [][AsmNext]_vars

\* Overlapping callers, on a file system whose calls can fail.
FaultNext ==
    \/ \E r \in Slots, url \in Urls \cup {NoUrl} : StartBegin(r, url)
    \/ \E r \in Slots : StartEnsureDir(r)
    \/ \E r \in Slots : StartEnsureDirFail(r)
    \/ \E r \in Slots : StartMetaAccess(r)
    \/ \E r \in Slots : StartMetaWrite(r)
    \/ \E r \in Slots : StartMetaWriteFail(r)
    \/ \E r \in Slots : StartLoad(r)
    \/ \E r \in Slots : StartLoadFail(r)
    \/ \E r \in Slots, sessionId \in SessionIds : CaptureBegin(r, sessionId)
    \/ \E r \in Slots : CaptureFetch(r)
    \/ \E r \in Slots : CaptureReadLast(r)
    \/ \E r \in Slots : CaptureReadLastFail(r)
    \/ \E r \in Slots : CaptureWrite(r)
    \/ \E r \in Slots : CaptureWriteFail(r)
    \/ \E r \in Slots : GifMeta(r)
    \/ \E r \in Slots : GifIter(r)
    \/ \E r \in Slots : GifFlush(r)
    \/ \E r \in Slots : GifStreamError(r)
    \/ \E r \in Slots, sessionId \in SessionIds : Query(r, sessionId)
    \/ \E r \in Slots, sessionId \in SessionIds, speed \in Speeds :
          GenerateGif(r, sessionId, speed)

FaultSpec == Init /\ [][FaultNext]_vars

-----------------------------------------------------------------------------
(* The claims. *)

\* The frame files of directory d.
FrameFiles(d) == {f \in Readdir(d) : IsImageFile(f)}

\* C1: in every directory, at all times, the stored frames read in capture
\* (timestamp) order show no two neighbours with byte-identical content.
\* (Frames of equal timestamp may be read in whichever order avoids it.)
C1_NoIdenticalNeighbours ==
    \A d \in Dirs :
        \E s \in SortedByTimestamp(FrameFiles(d)) :
            \A i \in 1..(Len(s) - 1) :
                disk[d].frames[s[i]] # disk[d].frames[s[i + 1]]

\* C2: when the read of the session's last frame resolves with bytes equal
\* to the fetched ones, that step ends the capture: no file is written, the
\* session (frame sequence, captureCount) is as before, no regeneration is
\* started, and the answer is success with duplicate = true, the session's
\* frame count and its latest frame name.
C2_DuplicateDiscarded ==
    [][\A r \in Slots :
          (/\ reqs[r].kind = "capture" /\ reqs[r].pc = "readLast"
           /\ reqs'[r] # reqs[r]
           /\ ~(reqs'[r] = Idle /\ out'.resp.error = "Failed to capture image: read")
           /\ reqs[r].imageBuffer =
                  disk[sessions[reqs[r].sid].dirName].frames[reqs[r].last])
          => /\ disk' = disk
             /\ sessions' = sessions
             /\ reqs'[r] = Idle
             /\ out'.kind = "capture" /\ out'.sid = reqs[r].sid
             /\ ~out'.pushed /\ out'.imageName = NoName
             /\ out'.resp = [Answer EXCEPT
                    !.duplicate = TRUE,
                    !.imageCount = Len(sessions[reqs[r].sid].images),
                    !.latestImage = sessions[reqs[r].sid].images[
                                        Len(sessions[reqs[r].sid].images)]]
      ]_vars

\* A capture was answered as a duplicate.
C2_Witness ==
    out.kind = "capture" /\ out.resp.code = 200 /\ out.resp.duplicate

\* Captures i..j of the log are a run: answered one after another to the
\* same session, each a success, with no other capture between them.
Run(i, j) ==
    /\ 1 <= i /\ i <= j /\ j <= Len(log)
    /\ \A k \in i..j : log[k].sid = log[i].sid /\ log[k].ok

SameBytes(i, j) == \A k \in i..j : log[k].imageBuffer = log[i].imageBuffer

Alternating(i, j) ==
    /\ j > i
    /\ \A k \in i..(j - 1) : log[k + 1].imageBuffer # log[k].imageBuffer
    /\ \A k \in i..(j - 2) : log[k + 2].imageBuffer = log[k].imageBuffer

\* The frames the captures i..j stored.
StoredIn(i, j) == Cardinality({k \in i..j : log[k].stored})

\* Capture i is the first one answered on its session.
FirstOfSession(i) == \A k \in 1..(i - 1) : log[k].sid # log[i].sid

\* The session's last frame held the bytes capture i fetched.
RepeatsLastFrame(i) == log[i].lastImageBuffer = log[i].imageBuffer

\* C3 as claimed: N captures one after another from the start of a
\* session, fresh or resumed, every fetch returning the same bytes, store exactly one frame and raise the frame
\* count by exactly 1.
C3_OneFramePerRun ==
    \A i, j \in 1..Len(log) :
        Run(i, j) /\ SameBytes(i, j) /\ FirstOfSession(i)
        => StoredIn(i, j) = 1 /\ log[j].after - log[i].before = 1

\* C3 amended: such a run stores exactly one frame and raises the frame
\* count by exactly 1 when the session has no frame or its last frame's
\* bytes differ from the fetched ones, and stores none and leaves the count
\* otherwise.
C3_OneFramePerNewRun ==
    \A i, j \in 1..Len(log) :
        Run(i, j) /\ SameBytes(i, j)
        => LET n == IF RepeatsLastFrame(i) THEN 0 ELSE 1
           IN StoredIn(i, j) = n /\ log[j].after - log[i].before = n

\* Three captures of the same bytes in a row, the first of them stored.
C3_Witness ==
    \E i \in 1..Len(log) :
        /\ Run(i, i + 2) /\ SameBytes(i, i + 2)
        /\ ~RepeatsLastFrame(i) /\ log[i].stored

\* C4 as claimed: captures one after another from the start of a session
\* whose fetched bytes alternate between two values each store a frame.
C4_AlternationStoresAll ==
    \A i, j \in 1..Len(log) :
        Run(i, j) /\ Alternating(i, j) /\ FirstOfSession(i)
        => StoredIn(i, j) = j - i + 1 /\ log[j].after - log[i].before = j - i + 1

\* C4 amended: they each store a frame when the session has no frame, or
\* its last frame's bytes differ from the first fetched ones, before the
\* first of them.
C4_AlternationAfterChangeStoresAll ==
    \A i, j \in 1..Len(log) :
        Run(i, j) /\ Alternating(i, j) /\ ~RepeatsLastFrame(i)
        => StoredIn(i, j) = j - i + 1 /\ log[j].after - log[i].before = j - i + 1

\* Three alternating captures in a row (A, B, A), all stored.
C4_Witness ==
    \E i \in 1..Len(log) :
        /\ Run(i, i + 2) /\ Alternating(i, i + 2)
        /\ ~RepeatsLastFrame(i) /\ StoredIn(i, i + 2) = 3

\* The recognized frame files of a directory.
ImageFiles(d) == {f \in Readdir(d) : IsImageFile(f)}

\* C5: a start reports as existing the number of image_*.png files of the
\* directory, says it continues exactly when that number is above 0 and
\* sets the session's sequence and captureCount from those files; the first
\* frame the session stores after that carries that number as its index
\* and a name no file of the directory has.
C5_ResumeContinuesNumbering ==
    [][\A r \in Slots :
          /\ (reqs[r].kind = "start" /\ reqs[r].pc = "readdir" /\ reqs'[r] = Idle)
             => LET d == urlToDirectory(reqs[r].url)
                    n == Cardinality(ImageFiles(d))
                    session == sessions'[reqs[r].sid]
                IN /\ out'.resp.existingImages = n
                   /\ out'.resp.continuing = (n > 0)
                   /\ session.captureCount = n
                   /\ Len(session.images) = n
                   /\ {session.images[k] : k \in 1..n} = ImageFiles(d)
          /\ (/\ reqs[r].kind = "capture" /\ reqs[r].pc = "write"
              /\ reqs'[r].pc = "gifMeta"
              /\ sessions[reqs[r].sid].existingImages > 0
              /\ Len(sessions[reqs[r].sid].images) =
                     sessions[reqs[r].sid].existingImages)
             => /\ reqs[r].imageName.idx = sessions[reqs[r].sid].existingImages
                /\ reqs[r].imageName \notin
                       DOMAIN disk[sessions[reqs[r].sid].dirName].frames
      ]_vars

\* C6: the metadata of a directory, once written, keeps the URL and the
\* creation timestamp first recorded, whatever starts overlap.
C6_MetadataWrittenOnce ==
    [][\A d \in Dirs :
          disk[d].meta # NoMeta => disk'[d].meta = disk[d].meta]_vars

\* C7: the step in which a capture's fetch or frame write fails ends the
\* request with an error response and leaves every session record as it
\* was; the request has appended no name and incremented no count.
C7_FailedCaptureLeavesSession ==
    [][\A r \in Slots :
          (/\ reqs[r].kind = "capture" /\ reqs[r].pc \in {"fetch", "write"}
           /\ reqs'[r] = Idle)
          => /\ out'.kind = "capture" /\ out'.sid = reqs[r].sid
             /\ out'.resp.code = 500
             /\ out'.resp.error \in {"Failed to capture image: fetch",
                                     "Failed to capture image: write"}
             /\ ~out'.pushed
             /\ sessions' = sessions
      ]_vars

\* A capture whose frame write failed has been answered.
C7_Witness ==
    /\ out.kind = "capture"
    /\ out.resp.error = "Failed to capture image: write"

\* C8: a capture whose fetch received a response with a status outside
\* 200..299 is answered with the fetch failure and has stored no frame.
C8_NonOkFetchFails ==
    (out.kind = "capture" /\ out.status # 0 /\ out.status \notin 200..299)
    => /\ out.resp.error = "Failed to capture image: fetch"
       /\ ~out.pushed

\* A generate-gif request for session sid is taken up in this step.
RegenerationRequested(sid) ==
    /\ budget' = budget - 1
    /\ \/ reqs' = reqs /\ out'.kind = "generate-gif" /\ out'.sid = sid
       \/ \E r \in Slots : /\ reqs[r].pc = "idle"
                            /\ reqs'[r].kind = "generate-gif"
                            /\ reqs'[r].sid = sid

\* C9: a generate-gif request on a session with zero frames is answered
\* with success at once, and no file is created or changed: assembly over
\* the empty sequence writes no artifact and raises no error.
C9_EmptyAssemblyIsNoop ==
    [][\A sid \in DOMAIN sessions :
          (Len(sessions[sid].images) = 0 /\ RegenerationRequested(sid))
          => /\ reqs' = reqs
             /\ out'.resp = Answer
             /\ disk' = disk
      ]_vars

\* A regeneration was answered with success for a session that has no
\* frame, and its directory holds no artifact.
C9_Witness ==
    /\ out.kind = "generate-gif" /\ out.resp.code = 200
    /\ out.sid \in DOMAIN sessions
    /\ Len(sessions[out.sid].images) = 0
    /\ ~disk[sessions[out.sid].dirName].gif.exists

\* The bytes of the frames of a session's sequence, in order.
SessionBytes(sid) ==
    [k \in 1..Len(sessions[sid].images) |->
        disk[sessions[sid].dirName].frames[sessions[sid].images[k]]]

\* The images of the frames an artifact holds, in order.
Emitted(gif) ==
    LET frameCells == SelectSeq(gif.cells, LAMBDA c : c.t = "frame")
    IN [m \in 1..Len(frameCells) |-> frameCells[m].img]

\* The positions of s that do not repeat the frame just before them.
Kept(s) == {k \in 1..Len(s) : k = 1 \/ s[k] # s[k - 1]}

\* e is s with each run of repeated frames collapsed to its first frame.
IsCollapseOf(e, s) ==
    /\ Len(e) = Cardinality(Kept(s))
    /\ \A k \in Kept(s) : e[Cardinality({j \in Kept(s) : j <= k})] = s[k]

\* C10: when an assembly has written its last byte, the artifact holds the
\* header, then the frames of the input sequence with each run of
\* immediately repeated byte-identical frames collapsed to its first frame,
\* in order, then the trailer.
C10_AssemblyCollapsesRepeats ==
    \A r \in Slots :
        (reqs[r].kind = "generate-gif" /\ reqs[r].pc = "gifFlush")
        => LET gif == disk[sessions[reqs[r].sid].dirName].gif
               input == SessionBytes(reqs[r].sid)
           IN /\ gif.exists
              /\ Len(gif.cells) = Cardinality(Kept(input)) + 2
              /\ gif.cells[1].t = "header"
              /\ gif.cells[Len(gif.cells)].t = "trailer"
              /\ IsCollapseOf(Emitted(gif), input)

\* An assembly over [A, A, B, A] has written [A, B, A].
C10_Witness ==
    \E r \in Slots :
        /\ reqs[r].kind = "generate-gif" /\ reqs[r].pc = "gifFlush"
        /\ SessionBytes(reqs[r].sid) = <<"A", "A", "B", "A">>
        /\ Emitted(disk[sessions[reqs[r].sid].dirName].gif) = <<"A", "B", "A">>

\* A generateGif call is running on directory d.
Regenerating(d) ==
    \E r \in Slots : /\ reqs[r].pc \in {"gifMeta", "gifLoop", "gifFlush"}
                     /\ sessions[reqs[r].sid].dirName = d

\* The artifact is the animation of the byte sequence input at delay.
Reflects(gif, input, delay) ==
    /\ gif.exists
    /\ Len(gif.cells) = Cardinality(Kept(input)) + 2
    /\ gif.cells[1] = HeaderCell(input[1])
    /\ gif.cells[Len(gif.cells)] = Trailer
    /\ \A m \in 2..(Len(gif.cells) - 1) :
          gif.cells[m].t = "frame" /\ gif.cells[m].delay = delay
    /\ IsCollapseOf(Emitted(gif), input)

\* C11: whenever no regeneration is running on a directory, its artifact
\* is the animation of the frame sequence and the delay that the latest
\* regeneration request (a stored capture or a generate-gif request) was
\* made with. (Stated for sequences whose frames all decode.)
C11_ArtifactReflectsLatestRequest ==
    \A d \in Dirs :
        (/\ lastRegen[d].called
         /\ ~Regenerating(d)
         /\ \A k \in 1..Len(lastRegen[d].input) : Decodable(lastRegen[d].input[k]))
        => Reflects(disk[d].gif, lastRegen[d].input, lastRegen[d].delay)

\* Slot r runs generateGif.
Assembling(r) == reqs[r].pc \in {"gifMeta", "gifLoop", "gifFlush"}

\* C12: a request that runs an assembly sends its success response only in
\* the step in which the output stream signals 'finish', which follows
\* the end of the loop and the writing of the trailer.
C12_AnswerAfterFinish ==
    [][\A r \in Slots :
          (Assembling(r) /\ reqs'[r] = Idle /\ out'.resp.code = 200)
          => /\ reqs[r].pc = "gifFlush"
             /\ out'.kind = reqs[r].kind /\ out'.sid = reqs[r].sid
      ]_vars

\* A capture that stored a frame and regenerated has answered success.
C12_Witness ==
    out.kind = "capture" /\ out.pushed /\ out.resp.code = 200

\* C13: every request is taken up for a session of the registry or is
\* answered at once; a capture, query or generate-gif request that names an
\* identifier the registry does not hold is answered 404 in the step that
\* takes it up, starts no fetch and changes no file and no session record.
C13_UnknownSessionNotFound ==
    [][/\ \A r \in Slots :
             (reqs[r].pc = "idle" /\ reqs'[r].pc # "idle"
              /\ reqs'[r].kind \in {"capture", "generate-gif"})
             => reqs'[r].sid \in DOMAIN sessions
       /\ \A kind \in {"capture", "query", "generate-gif"} :
             (budget' = budget - 1 /\ reqs' = reqs /\ out'.kind = kind
              /\ out'.sid \notin DOMAIN sessions)
             => /\ out'.resp = Failure(404, "Session not found")
                /\ disk' = disk /\ sessions' = sessions
                /\ now' = now /\ lastRegen' = lastRegen
      ]_vars

\* A capture on an unknown session has been answered 404.
C13_Witness ==
    /\ out.kind = "capture" /\ out.sid \notin DOMAIN sessions
    /\ out.resp.code = 404

\* delay is an integer nearest to BaseDelay / m.
NearestToBaseOver(delay, m) ==
    LET diff == delay * m - BaseDelay
    IN 2 * (IF diff < 0 THEN 0 - diff ELSE diff) <= m

\* The frame cells of after that before does not hold at the same place.
WrittenFrames(before, after) ==
    {after[p] : p \in {q \in 1..Len(after) :
                          /\ after[q].t = "frame"
                          /\ (q > Len(before) \/ before[q] # after[q])}}

\* C14: a generate-gif request with speed m assembles with the delay
\* nearest to 500 / m (500 when no speed is given), every frame it writes
\* carries that delay, and none of its steps changes a session's sequence
\* or a stored frame.
C14_SpeedDividesBaseDelay ==
    [][\A r \in Slots :
          (reqs'[r].kind = "generate-gif" /\ reqs'[r] # reqs[r])
          => LET q == reqs'[r]
                 d == sessions[q.sid].dirName
             IN /\ NearestToBaseOver(q.asm.delay, IF q.speed = 0 THEN 1 ELSE q.speed)
                /\ q.speed = 0 => q.asm.delay = BaseDelay
                /\ q.speed = 2 => q.asm.delay = 250
                /\ \A c \in WrittenFrames(disk[d].gif.cells, disk'[d].gif.cells) :
                      c.delay = q.asm.delay
                /\ sessions' = sessions
                /\ \A e \in Dirs : disk'[e].frames = disk[e].frames
      ]_vars

\* A regeneration at speed 3 has written a frame at delay 167.
C14_Witness ==
    \E r \in Slots :
        /\ reqs[r].kind = "generate-gif" /\ reqs[r].speed = 3
        /\ reqs[r].pc = "gifFlush"
        /\ \E p \in 1..Len(disk[sessions[reqs[r].sid].dirName].gif.cells) :
              disk[sessions[reqs[r].sid].dirName].gif.cells[p] = FrameCell("A", 167)

\* C15: a start request without a URL is answered 400 in the step that
\* takes it up: no identifier is drawn, no session record stored, no
\* directory or metadata created; the starts that go on have a URL.
C15_StartWithoutUrlRejected ==
    [][/\ (budget' = budget - 1 /\ reqs' = reqs /\ out'.kind = "start")
          => /\ out'.resp = Failure(400, "URL is required")
             /\ nextSid' = nextSid
             /\ sessions' = sessions
             /\ disk' = disk
       /\ \A r \in Slots :
             (reqs'[r].kind = "start" /\ reqs[r].pc = "idle")
             => reqs'[r].url \in Urls
      ]_vars

\* A start without a URL has been answered 400.
C15_Witness == out.kind = "start" /\ out.resp.code = 400

\* C16: in every state, between the awaits of overlapping requests too,
\* each session's captureCount is the length of its frame sequence.
C16_CountIsSequenceLength ==
    \A sid \in DOMAIN sessions :
        sessions[sid].captureCount = Len(sessions[sid].images)

\* A capture waits for its frame write while another capture of the same
\* session has stored a frame since it began.
C16_Witness ==
    \E r \in Slots :
        /\ reqs[r].kind = "capture" /\ reqs[r].pc = "write"
        /\ sessions[reqs[r].sid].captureCount > reqs[r].countBefore

\* C17: no step changes or removes a stored frame, and the name a capture
\* writes its frame under is the name of no file already in the directory.
C17_FramesNeverOverwritten ==
    [][/\ \A d \in Dirs : \A n \in DOMAIN disk[d].frames :
             /\ n \in DOMAIN disk'[d].frames
             /\ disk'[d].frames[n] = disk[d].frames[n]
       /\ \A r \in Slots :
             (reqs[r].kind = "capture" /\ reqs[r].pc = "write"
              /\ reqs'[r].pc = "gifMeta")
             => reqs[r].imageName \notin
                    Readdir(sessions[reqs[r].sid].dirName)
      ]_vars

\* C18: along every session's frame sequence the timestamps in the names
\* never decrease, so the sequence is in the order a new scan of the
\* directory, sorted by timestamp, lists those frames in.
C18_SequenceInCaptureOrder ==
    \A sid \in DOMAIN sessions :
        \A i, j \in 1..Len(sessions[sid].images) :
            i < j => getTimestamp(sessions[sid].images[i])
                         <= getTimestamp(sessions[sid].images[j])

\* The sequence of session sid names a frame that cannot be decoded.
HasUndecodableFrame(sid) ==
    \E k \in 1..Len(SessionBytes(sid)) : ~Decodable(SessionBytes(sid)[k])

\* C19: an assembly over a sequence with a frame that cannot be decoded is
\* bound to fail; none of its steps changes the artifact the directory
\* held, and when it stops inside the loop or before it the caller gets
\* an error.
C19_FailedAssemblyKeepsArtifact ==
    [][\A r \in Slots :
          (Assembling(r) /\ reqs'[r] # reqs[r] /\ HasUndecodableFrame(reqs[r].sid))
          => /\ disk'[sessions[reqs[r].sid].dirName].gif =
                    disk[sessions[reqs[r].sid].dirName].gif
             /\ (reqs'[r] = Idle /\ reqs[r].pc # "gifFlush")
                    => out'.resp.code = 500
      ]_vars

\* C20: no request is left without a response, and a request during which
\* a file system call failed (mkdir or the metadata write in start, the
\* read of the last frame in capture, readdir, the artifact's output
\* stream) is answered with an error.
C20_EveryFailureAnswered ==
    /\ out.pc # "unanswered"
    /\ out.failed # "" => out.resp.code >= 400

====
